---- MODULE Spec2Model ----
(***************************************************************************)
(* The UCI options subsystem of src/src/ucioption.cpp: the Option value    *)
(* cell, the case-insensitive OptionsMap, UCI::init's catalog, the         *)
(* declaration printer and Option::operator=.                              *)
(*                                                                         *)
(* A std::string is a sequence of character codes, so that tolower, stoi   *)
(* and to_string are computed character by character as the library does.  *)
(***************************************************************************)
EXTENDS Integers, Sequences, FiniteSets

VARIABLES
  Options,               \* map name -> OptionsMap: the key-ordered sequence of [key, opt]
  insert_order,          \* the static counter of Option::operator<<
  Is64Bit,               \* build constant read by init()
  hardware_concurrency,  \* what std::thread::hardware_concurrency() returns on this host
  calls,                 \* how many calls of init() and of o[name] << opt were made
  last                   \* observation of the last call: arguments, outcome, callbacks run, output

vars == <<Options, insert_order, Is64Bit, hardware_concurrency, calls, last>>

(***************************************************************************)
(* Text literals of the source.                                            *)
(***************************************************************************)
nullptr == "nullptr"

EmptyText == <<>>                                          \* ""
TrueText == <<116, 114, 117, 101>>                         \* "true"
FalseText == <<102, 97, 108, 115, 101>>                    \* "false"
TypeString == <<115, 116, 114, 105, 110, 103>>             \* "string"
TypeCheck == <<99, 104, 101, 99, 107>>                     \* "check"
TypeButton == <<98, 117, 116, 116, 111, 110>>              \* "button"
TypeSpin == <<115, 112, 105, 110>>                         \* "spin"
LitOptionName == <<10, 111, 112, 116, 105, 111, 110, 32, 110, 97, 109, 101, 32>>  \* "\noption name "
LitType == <<32, 116, 121, 112, 101, 32>>                  \* " type "
LitDefault == <<32, 100, 101, 102, 97, 117, 108, 116, 32>> \* " default "
LitMin == <<32, 109, 105, 110, 32>>                        \* " min "
LitMax == <<32, 109, 97, 120, 32>>                         \* " max "

(***************************************************************************)
(* CaseInsensitiveLess: std::lexicographical_compare under the comparison  *)
(* tolower(c1) < tolower(c2).                                              *)
(***************************************************************************)
tolower(c) == IF c >= 65 /\ c <= 90 THEN c + 32 ELSE c

CharLessRaw(c1, c2) == c1 < c2

CharLess(c1, c2) == tolower(c1) < tolower(c2)

RECURSIVE LexicographicalCompare(_, _, _)
LexicographicalCompare(s1, s2, i) ==
  IF i > Len(s1) \/ i > Len(s2)
    THEN i > Len(s1) /\ i <= Len(s2)
    ELSE IF CharLess(s1[i], s2[i]) THEN TRUE
    ELSE IF CharLess(s2[i], s1[i]) THEN FALSE
    ELSE LexicographicalCompare(s1, s2, i + 1)

CaseInsensitiveLess(s1, s2) == LexicographicalCompare(s1, s2, 1)

(***************************************************************************)
(* std::to_string(int) and std::stoi(const string&).                       *)
(***************************************************************************)
INT_MAX == 2147483647

RECURSIVE Digits(_)
Digits(n) == IF n < 10 THEN <<48 + n>> ELSE Append(Digits(n \div 10), 48 + (n % 10))

to_string(v) == IF v < 0 THEN <<45>> \o Digits(-v) ELSE Digits(v)

IsSpace(c) == c = 32 \/ (c >= 9 /\ c <= 13)

IsDigit(c) == c >= 48 /\ c <= 57

RECURSIVE SkipSpace(_, _)
SkipSpace(s, i) == IF i <= Len(s) /\ IsSpace(s[i]) THEN SkipSpace(s, i + 1) ELSE i

RECURSIVE DigitsEnd(_, _)
DigitsEnd(s, i) == IF i <= Len(s) /\ IsDigit(s[i]) THEN DigitsEnd(s, i + 1) ELSE i

\* The digits s[i..end-1] accumulated as a negative number, so that INT_MIN is reached
\* without passing it; 1 when the value lies beyond the limit. lastMax is the largest
\* last digit at |value| \div 10 = INT_MAX \div 10: 7 for a positive value, 8 for a negative.
RECURSIVE DigitsValue(_, _, _, _, _)
DigitsValue(s, i, end, acc, lastMax) ==
  IF i >= end THEN acc
  ELSE IF acc < 0 - (INT_MAX \div 10) \/ (acc = 0 - (INT_MAX \div 10) /\ s[i] - 48 > lastMax) THEN 1
  ELSE DigitsValue(s, i + 1, end, 10 * acc - (s[i] - 48), lastMax)

\* stoi: leading white space is skipped, an optional sign is read, then the longest run
\* of digits; what follows the digits is ignored. No digit: std::invalid_argument; a
\* value no int holds: std::out_of_range.
Stoi(s) ==
  LET i == SkipSpace(s, 1)
      signed == i <= Len(s) /\ (s[i] = 45 \/ s[i] = 43)
      neg == i <= Len(s) /\ s[i] = 45
      j == IF signed THEN i + 1 ELSE i
      k == DigitsEnd(s, j)
      acc == DigitsValue(s, j, k, 0, IF neg THEN 8 ELSE 7)
  IN  IF k = j THEN [err |-> "invalid_argument", val |-> 0]
      ELSE IF acc = 1 THEN [err |-> "out_of_range", val |-> 0]
      ELSE [err |-> "none", val |-> IF neg THEN acc ELSE 0 - acc]

(***************************************************************************)
(* Option constructors. idx is not set by a constructor: operator<< stamps *)
(* it.                                                                     *)
(***************************************************************************)
OptionString(v, f) ==
  [type |-> TypeString, defaultValue |-> v, currentValue |-> v, min |-> 0, max |-> 0, on_change |-> f]

OptionCheck(v, f) ==
  [type |-> TypeCheck, defaultValue |-> IF v THEN TrueText ELSE FalseText,
   currentValue |-> IF v THEN TrueText ELSE FalseText, min |-> 0, max |-> 0, on_change |-> f]

OptionButton(f) ==
  [type |-> TypeButton, defaultValue |-> EmptyText, currentValue |-> EmptyText,
   min |-> 0, max |-> 0, on_change |-> f]

OptionSpin(v, minv, maxv, f) ==
  [type |-> TypeSpin, defaultValue |-> to_string(v), currentValue |-> to_string(v),
   min |-> minv, max |-> maxv, on_change |-> f]

(***************************************************************************)
(* The catalog of UCI::init.                                               *)
(***************************************************************************)
MaxHashMB64 == 1024 * 1024

MaxHashMB32 == 2048

Catalog(n, MaxHashMB) ==
  <<
     \* 0: o["Tactical Mode"]
     [name |-> <<84, 97, 99, 116, 105, 99, 97, 108, 32, 77, 111, 100, 101>>,
      opt |-> OptionCheck(FALSE, nullptr)],
     \* 1: o["Debug Log File"]
     [name |-> <<68, 101, 98, 117, 103, 32, 76, 111, 103, 32, 70, 105, 108, 101>>,
      opt |-> OptionString(<<>>, "on_logger")],
     \* 2: o["Contempt"]
     [name |-> <<67, 111, 110, 116, 101, 109, 112, 116>>,
      opt |-> OptionSpin(0, -100, 100, nullptr)],
     \* 3: o["Threads"]
     [name |-> <<84, 104, 114, 101, 97, 100, 115>>,
      opt |-> OptionSpin(n, 1, 512, "on_threads")],
     \* 4: o["Hash"]
     [name |-> <<72, 97, 115, 104>>,
      opt |-> OptionSpin(16, 1, MaxHashMB, "on_hash_size")],
     \* 5: o["Clear Hash"]
     [name |-> <<67, 108, 101, 97, 114, 32, 72, 97, 115, 104>>,
      opt |-> OptionButton("on_clear_hash")],
     \* 6: o["Ponder"]
     [name |-> <<80, 111, 110, 100, 101, 114>>,
      opt |-> OptionCheck(FALSE, nullptr)],
     \* 7: o["Material(mg)"]
     [name |-> <<77, 97, 116, 101, 114, 105, 97, 108, 40, 109, 103, 41>>,
      opt |-> OptionSpin(100, 0, 300, "on_eval")],
     \* 8: o["Material(eg)"]
     [name |-> <<77, 97, 116, 101, 114, 105, 97, 108, 40, 101, 103, 41>>,
      opt |-> OptionSpin(100, 0, 300, "on_eval")],
     \* 9: o["Imbalance(mg)"]
     [name |-> <<73, 109, 98, 97, 108, 97, 110, 99, 101, 40, 109, 103, 41>>,
      opt |-> OptionSpin(100, 0, 300, "on_eval")],
     \* 10: o["Imbalance(eg)"]
     [name |-> <<73, 109, 98, 97, 108, 97, 110, 99, 101, 40, 101, 103, 41>>,
      opt |-> OptionSpin(100, 0, 300, "on_eval")],
     \* 11: o["PawnStructure(mg)"]
     [name |-> <<80, 97, 119, 110, 83, 116, 114, 117, 99, 116, 117, 114, 101, 40, 109, 103, 41>>,
      opt |-> OptionSpin(100, 0, 300, "on_eval")],
     \* 12: o["PawnStructure(eg)"]
     [name |-> <<80, 97, 119, 110, 83, 116, 114, 117, 99, 116, 117, 114, 101, 40, 101, 103, 41>>,
      opt |-> OptionSpin(100, 0, 300, "on_eval")],
     \* 13: o["Mobility(mg)"]
     [name |-> <<77, 111, 98, 105, 108, 105, 116, 121, 40, 109, 103, 41>>,
      opt |-> OptionSpin(100, 0, 300, "on_eval")],
     \* 14: o["Mobility(eg)"]
     [name |-> <<77, 111, 98, 105, 108, 105, 116, 121, 40, 101, 103, 41>>,
      opt |-> OptionSpin(100, 0, 300, "on_eval")],
     \* 15: o["PassedPawns(mg)"]
     [name |-> <<80, 97, 115, 115, 101, 100, 80, 97, 119, 110, 115, 40, 109, 103, 41>>,
      opt |-> OptionSpin(100, 0, 300, "on_eval")],
     \* 16: o["PassedPawns(eg)"]
     [name |-> <<80, 97, 115, 115, 101, 100, 80, 97, 119, 110, 115, 40, 101, 103, 41>>,
      opt |-> OptionSpin(100, 0, 300, "on_eval")],
     \* 17: o["KingSafety(mg)"]
     [name |-> <<75, 105, 110, 103, 83, 97, 102, 101, 116, 121, 40, 109, 103, 41>>,
      opt |-> OptionSpin(100, 0, 300, "on_eval")],
     \* 18: o["KingSafety(eg)"]
     [name |-> <<75, 105, 110, 103, 83, 97, 102, 101, 116, 121, 40, 101, 103, 41>>,
      opt |-> OptionSpin(100, 0, 300, "on_eval")],
     \* 19: o["Threats(mg)"]
     [name |-> <<84, 104, 114, 101, 97, 116, 115, 40, 109, 103, 41>>,
      opt |-> OptionSpin(100, 0, 300, "on_eval")],
     \* 20: o["Threats(eg)"]
     [name |-> <<84, 104, 114, 101, 97, 116, 115, 40, 101, 103, 41>>,
      opt |-> OptionSpin(100, 0, 300, "on_eval")],
     \* 21: o["Space"]
     [name |-> <<83, 112, 97, 99, 101>>,
      opt |-> OptionSpin(100, 0, 300, "on_eval")],
     \* 22: o["Razoring"]
     [name |-> <<82, 97, 122, 111, 114, 105, 110, 103>>,
      opt |-> OptionCheck(TRUE, nullptr)],
     \* 23: o["Futility"]
     [name |-> <<70, 117, 116, 105, 108, 105, 116, 121>>,
      opt |-> OptionCheck(TRUE, nullptr)],
     \* 24: o["NullMove"]
     [name |-> <<78, 117, 108, 108, 77, 111, 118, 101>>,
      opt |-> OptionCheck(TRUE, nullptr)],
     \* 25: o["ProbCut"]
     [name |-> <<80, 114, 111, 98, 67, 117, 116>>,
      opt |-> OptionCheck(TRUE, nullptr)],
     \* 26: o["Pruning"]
     [name |-> <<80, 114, 117, 110, 105, 110, 103>>,
      opt |-> OptionCheck(TRUE, nullptr)],
     \* 27: o["LMR"]
     [name |-> <<76, 77, 82>>,
      opt |-> OptionCheck(TRUE, nullptr)],
     \* 28: o["MaxLMR"]
     [name |-> <<77, 97, 120, 76, 77, 82>>,
      opt |-> OptionSpin(10, 0, 20, nullptr)],
     \* 29: o["MultiPV"]
     [name |-> <<77, 117, 108, 116, 105, 80, 86>>,
      opt |-> OptionSpin(1, 1, 500, nullptr)],
     \* 30: o["Skill Level"]
     [name |-> <<83, 107, 105, 108, 108, 32, 76, 101, 118, 101, 108>>,
      opt |-> OptionSpin(20, 0, 20, nullptr)],
     \* 31: o["Move Overhead"]
     [name |-> <<77, 111, 118, 101, 32, 79, 118, 101, 114, 104, 101, 97, 100>>,
      opt |-> OptionSpin(30, 0, 5000, nullptr)],
     \* 32: o["Minimum Thinking Time"]
     [name |-> <<77, 105, 110, 105, 109, 117, 109, 32, 84, 104, 105, 110, 107, 105, 110, 103, 32, 84, 105, 109, 101>>,
      opt |-> OptionSpin(20, 0, 5000, nullptr)],
     \* 33: o["Large Pages"]
     [name |-> <<76, 97, 114, 103, 101, 32, 80, 97, 103, 101, 115>>,
      opt |-> OptionCheck(TRUE, "on_large_pages")],
     \* 34: o["Slow Mover"]
     [name |-> <<83, 108, 111, 119, 32, 77, 111, 118, 101, 114>>,
      opt |-> OptionSpin(89, 10, 1000, nullptr)],
     \* 35: o["nodestime"]
     [name |-> <<110, 111, 100, 101, 115, 116, 105, 109, 101>>,
      opt |-> OptionSpin(0, 0, 10000, nullptr)],
     \* 36: o["UCI_Chess960"]
     [name |-> <<85, 67, 73, 95, 67, 104, 101, 115, 115, 57, 54, 48>>,
      opt |-> OptionCheck(FALSE, nullptr)],
     \* 37: o["SyzygyPath"]
     [name |-> <<83, 121, 122, 121, 103, 121, 80, 97, 116, 104>>,
      opt |-> OptionString(<<60, 101, 109, 112, 116, 121, 62>>, "on_tb_path")],
     \* 38: o["SyzygyProbeDepth"]
     [name |-> <<83, 121, 122, 121, 103, 121, 80, 114, 111, 98, 101, 68, 101, 112, 116, 104>>,
      opt |-> OptionSpin(1, 1, 100, nullptr)],
     \* 39: o["Syzygy50MoveRule"]
     [name |-> <<83, 121, 122, 121, 103, 121, 53, 48, 77, 111, 118, 101, 82, 117, 108, 101>>,
      opt |-> OptionCheck(TRUE, nullptr)],
     \* 40: o["SyzygyProbeLimit"]
     [name |-> <<83, 121, 122, 121, 103, 121, 80, 114, 111, 98, 101, 76, 105, 109, 105, 116>>,
      opt |-> OptionSpin(6, 0, 6, nullptr)]
  >>

(***************************************************************************)
(* OptionsMap: a std::map ordered by CaseInsensitiveLess, kept as the      *)
(* sequence of its entries in key order.                                   *)
(***************************************************************************)
\* lower_bound: the first position in lo..hi whose key does not order before name
\* (hi + 1 if none), by the halving search of the ordered map
RECURSIVE LowerBound(_, _, _, _)
LowerBound(om, name, lo, hi) ==
  IF lo > hi THEN lo
  ELSE LET mid == (lo + hi) \div 2
       IN  IF CaseInsensitiveLess(om[mid].key, name)
             THEN LowerBound(om, name, mid + 1, hi)
             ELSE LowerBound(om, name, lo, mid - 1)

\* where operator[] inserts a key that is absent
MapInsertPos(om, name) == LowerBound(om, name, 1, Len(om))

\* find / count: the position of the entry whose key is equivalent to name, 0 if none
MapFind(om, name) ==
  LET i == LowerBound(om, name, 1, Len(om))
  IN  IF i <= Len(om) /\ ~CaseInsensitiveLess(name, om[i].key) THEN i ELSE 0

InsertAt(s, pos, e) == SubSeq(s, 1, pos - 1) \o <<e>> \o SubSeq(s, pos, Len(s))

ShiftIntoNonStatic(o, order) ==
  [type |-> o.type, defaultValue |-> o.defaultValue, currentValue |-> o.currentValue,
   min |-> o.min, max |-> o.max, on_change |-> o.on_change, idx |-> 0]

\* Option::operator<<: *this = o; idx = insert_order++
ShiftInto(o, order) ==
  [type |-> o.type, defaultValue |-> o.defaultValue, currentValue |-> o.currentValue,
   min |-> o.min, max |-> o.max, on_change |-> o.on_change, idx |-> order]

RegisterIntoInsertOnly(om, name, o, order) ==
  IF MapFind(om, name) # 0
    THEN om
    ELSE InsertAt(om, MapInsertPos(om, name), [key |-> name, opt |-> ShiftInto(o, order)])

\* o[name] << opt: operator[] finds the slot of name or creates it, operator<< fills it
RegisterInto(om, name, o, order) ==
  LET i == MapFind(om, name)
  IN  IF i # 0
        THEN [om EXCEPT ![i].opt = ShiftInto(o, order)]
        ELSE InsertAt(om, MapInsertPos(om, name), [key |-> name, opt |-> ShiftInto(o, order)])

\* the statements of init() from the k-th on, run in order; each statement's map is
\* computed (Len forces it) before the next statement runs
RECURSIVE InitFrom(_, _, _, _)
InitFrom(om, cat, k, order) ==
  IF k > Len(cat) THEN om
  ELSE LET next == RegisterInto(om, cat[k].name, cat[k].opt, order)
       IN  IF Len(next) > 0 THEN InitFrom(next, cat, k + 1, order + 1) ELSE next

\* the body of UCI::init(o) on a host reporting hw execution units
InitMap(om, hw, is64, order) ==
  LET MaxHashMB == IF is64 THEN MaxHashMB64 ELSE MaxHashMB32
      n == IF hw = 0 THEN 1 ELSE hw
  IN  InitFrom(om, Catalog(n, MaxHashMB), 1, order)

CatalogSize == Len(Catalog(1, MaxHashMB32))

(***************************************************************************)
(* Conversion operators.                                                   *)
(***************************************************************************)
OperatorIntSpinOnly(o) ==
  IF o.type # TypeSpin THEN [err |-> "assert", val |-> 0] ELSE Stoi(o.currentValue)

\* Option::operator int(): the assert, then stoi of a spin's text or the truth of a check's
OperatorInt(o) ==
  IF o.type # TypeCheck /\ o.type # TypeSpin THEN [err |-> "assert", val |-> 0]
  ELSE IF o.type = TypeSpin THEN Stoi(o.currentValue)
  ELSE [err |-> "none", val |-> IF o.currentValue = TrueText THEN 1 ELSE 0]

\* Option::operator std::string(): the assert, then the current text
OperatorString(o) ==
  IF o.type # TypeString THEN [err |-> "assert", val |-> EmptyText]
  ELSE [err |-> "none", val |-> o.currentValue]

(***************************************************************************)
(* The 'on change' actions. What a callback does outside this file is not  *)
(* modelled; what it does to its argument is: on_hash_size and             *)
(* on_large_pages hand it to TT.resize and so convert it to a number,      *)
(* on_logger and on_tb_path hand it to start_logger and Tablebases::init   *)
(* and so convert it to a string, the others take it unnamed.              *)
(***************************************************************************)
CallbackReads(cb) ==
  IF cb \in {"on_hash_size", "on_large_pages"} THEN "int"
  ELSE IF cb \in {"on_logger", "on_tb_path"} THEN "string"
  ELSE "none"

\* how the conversion on_change applies to cell o ends: "none" (it returns, or there is
\* no conversion), "assert" (the conversion operator's assertion fails), or stoi's exception
CallbackRead(o) ==
  IF CallbackReads(o.on_change) = "int" THEN OperatorInt(o).err
  ELSE IF CallbackReads(o.on_change) = "string" THEN OperatorString(o).err
  ELSE "none"

(***************************************************************************)
(* Option::operator=(const string&).                                       *)
(***************************************************************************)
EmptyRejectedAnyType(o, v) == v = EmptyText

\* type != "button" && v.empty()
EmptyRejected(o, v) == o.type # TypeButton /\ v = EmptyText

CheckRejectedNever(o, v) == FALSE

\* type == "check" && v != "true" && v != "false"
CheckRejected(o, v) == o.type = TypeCheck /\ v # TrueText /\ v # FalseText

SpinRejectedBelowOnly(o, v) == o.type = TypeSpin /\ Stoi(v).val < o.min

\* type == "spin" && (stoi(v) < min || stoi(v) > max), once stoi has returned
SpinRejected(o, v) == o.type = TypeSpin /\ (Stoi(v).val < o.min \/ Stoi(v).val > o.max)

\* stoi(v) is evaluated only when the first two disjuncts are false and type is "spin"
StoiThrows(o, v) == o.type = TypeSpin /\ Stoi(v).err # "none"

StoreAndDefault(o, v) ==
  IF o.type # TypeButton THEN [o EXCEPT !.currentValue = v, !.defaultValue = v] ELSE o

\* if (type != "button") currentValue = v
Store(o, v) == IF o.type # TypeButton THEN [o EXCEPT !.currentValue = v] ELSE o

\* if (on_change) on_change(*this): the callbacks run, each with the value it is handed
\* and how its conversion of the cell ended
OnChange(o) ==
  IF o.on_change # nullptr
    THEN <<[cb |-> o.on_change, seen |-> o.currentValue, read |-> CallbackRead(o)]>>
    ELSE <<>>

OperatorAssignFireFirst(o, v) ==
  IF EmptyRejected(o, v) \/ CheckRejected(o, v)
    THEN [result |-> "rejected", opt |-> o, fired |-> <<>>]
  ELSE IF StoiThrows(o, v)
    THEN [result |-> Stoi(v).err, opt |-> o, fired |-> <<>>]
  ELSE IF SpinRejected(o, v)
    THEN [result |-> "rejected", opt |-> o, fired |-> <<>>]
  ELSE [result |-> "applied", opt |-> Store(o, v), fired |-> OnChange(o)]

\* The outcome of operator= on cell o: the cell afterwards, the callbacks run, and how the
\* call ended: "applied", "rejected" (the early return), or the exception stoi threw,
\* which leaves operator= before anything is stored.
OperatorAssign(o, v) ==
  IF EmptyRejected(o, v) \/ CheckRejected(o, v)
    THEN [result |-> "rejected", opt |-> o, fired |-> <<>>]
  ELSE IF StoiThrows(o, v)
    THEN [result |-> Stoi(v).err, opt |-> o, fired |-> <<>>]
  ELSE IF SpinRejected(o, v)
    THEN [result |-> "rejected", opt |-> o, fired |-> <<>>]
  ELSE [result |-> "applied", opt |-> Store(o, v), fired |-> OnChange(Store(o, v))]

(***************************************************************************)
(* operator<<(std::ostream&, const OptionsMap&). The output is the         *)
(* sequence of lines written, a line the sequence of texts inserted into   *)
(* the stream.                                                             *)
(***************************************************************************)
DumpLineDefaultAlways(key, o) ==
  <<LitOptionName, key, LitType, o.type, LitDefault, o.defaultValue>>
  \o (IF o.type = TypeSpin THEN <<LitMin, to_string(o.min), LitMax, to_string(o.max)>> ELSE <<>>)

DumpLineCurrent(key, o) ==
  <<LitOptionName, key, LitType, o.type>>
  \o (IF o.type # TypeButton THEN <<LitDefault, o.currentValue>> ELSE <<>>)
  \o (IF o.type = TypeSpin THEN <<LitMin, to_string(o.min), LitMax, to_string(o.max)>> ELSE <<>>)

DumpLine(key, o) ==
  <<LitOptionName, key, LitType, o.type>>
  \o (IF o.type # TypeButton THEN <<LitDefault, o.defaultValue>> ELSE <<>>)
  \o (IF o.type = TypeSpin THEN <<LitMin, to_string(o.min), LitMax, to_string(o.max)>> ELSE <<>>)

\* the inner loop: the first entry in key order whose idx is the one sought, 0 if none
FirstWithIdx(om, idx) ==
  LET hits == {i \in 1..Len(om) : om[i].opt.idx = idx}
  IN  IF hits = {} THEN 0 ELSE CHOOSE i \in hits : \A j \in hits : i <= j

\* the outer loop: idx = 0 .. om.size() - 1
RECURSIVE PrintFrom(_, _)
PrintFrom(om, idx) ==
  IF idx >= Len(om) THEN <<>>
  ELSE LET i == FirstWithIdx(om, idx)
       IN  (IF i = 0 THEN <<>> ELSE <<DumpLine(om[i].key, om[i].opt)>>) \o PrintFrom(om, idx + 1)

PrintOptionsMap(om) == PrintFrom(om, 0)

(***************************************************************************)
(* The environment: the maps of the process, the hosts the engine runs on, *)
(* the commands the host sends.                                            *)
(***************************************************************************)
GlobalOptions == "Options"

Maps == {GlobalOptions, "Other"}

\* the hosts the engine is built for and run on: a 64-bit build on a 4-thread host, a
\* 32-bit build where the thread count is unknown, a 64-bit build on a 600-thread host
Hosts ==
  { [is64 |-> TRUE, hw |-> 4], [is64 |-> FALSE, hw |-> 0], [is64 |-> TRUE, hw |-> 600] }

\* the setoption commands of the host: each a name and a value text
N_hash == <<104, 97, 115, 104>>                               \* "hash"
N_Threads == <<84, 104, 114, 101, 97, 100, 115>>              \* "Threads"
N_Contempt == <<67, 111, 110, 116, 101, 109, 112, 116>>       \* "Contempt"
N_PONDER == <<80, 79, 78, 68, 69, 82>>                        \* "PONDER"
N_ClearHash == <<67, 108, 101, 97, 114, 32, 72, 97, 115, 104>>     \* "Clear Hash"
N_SyzygyPath == <<83, 121, 122, 121, 103, 121, 80, 97, 116, 104>>  \* "SyzygyPath"
V_abc == <<97, 98, 99>>                                       \* "abc"
V_12abc == <<49, 50, 97, 98, 99>>                             \* "12abc"
V_TooLarge == <<57, 57, 57, 57, 57, 57, 57, 57, 57, 57, 57>>  \* "99999999999"

HostInts == {-1, 512, 4096}

HostCommands ==
  ({N_hash} \X ({EmptyText, V_abc, V_12abc, V_TooLarge} \cup {to_string(v) : v \in HostInts}))
  \cup ({N_Threads} \X {to_string(512), to_string(4096)})
  \cup ({N_Contempt} \X {EmptyText, to_string(-1), to_string(512)})
  \cup ({N_PONDER} \X {EmptyText, TrueText, FalseText, V_abc})
  \cup ({N_ClearHash} \X {EmptyText, V_abc})
  \cup ({N_SyzygyPath} \X {EmptyText, V_abc})

\* what a caller other than init() registers
N_ab == <<97, 98>>                                            \* "ab"
N_AB == <<65, 66>>                                            \* "AB"
N_B == <<66>>                                                 \* "B"

Registrations ==
  { [name |-> N_ab, opt |-> OptionSpin(5, 1, 10, "on_hash_size")],
    [name |-> N_AB, opt |-> OptionCheck(FALSE, nullptr)],
    [name |-> N_B, opt |-> OptionString(<<120>>, "on_logger")] }   \* "x"

\* SpecReg makes at most this many calls of init() and o[name] << opt
MaxCalls == 3

(***************************************************************************)
(* Actions.                                                                *)
(***************************************************************************)
NoCall ==
  [op |-> "none", map |-> GlobalOptions, name |-> <<>>, v |-> <<>>, result |-> "none",
   fired |-> <<>>, prev |-> <<>>, out |-> <<>>]

Init ==
  /\ Options = [m \in Maps |-> <<>>]
  /\ insert_order = 0
  /\ \E h \in Hosts : Is64Bit = h.is64 /\ hardware_concurrency = h.hw
  /\ calls = 0
  /\ last = NoCall

\* UCI::init(o)
UCIInit(m) ==
  /\ Options' = [Options EXCEPT ![m] = InitMap(@, hardware_concurrency, Is64Bit, insert_order)]
  /\ insert_order' = insert_order + CatalogSize
  /\ calls' = calls + 1
  /\ last' = [NoCall EXCEPT !.op = "init", !.map = m,
                            !.result = IF Options[m] = <<>> THEN "fresh" ELSE "again"]
  /\ UNCHANGED <<Is64Bit, hardware_concurrency>>

\* o[name] << opt
Register(m, name, o) ==
  /\ Options' = [Options EXCEPT ![m] = RegisterInto(@, name, o, insert_order)]
  /\ insert_order' = insert_order + 1
  /\ calls' = calls + 1
  /\ last' = [NoCall EXCEPT !.op = "register", !.map = m, !.name = name,
                            !.result = IF MapFind(Options[m], name) = 0 THEN "created" ELSE "found",
                            !.prev = Options[m]]
  /\ UNCHANGED <<Is64Bit, hardware_concurrency>>

\* o[name] = v, for a name the map holds
Assign(m, name, v) ==
  LET i == MapFind(Options[m], name)
      r == OperatorAssign(Options[m][i].opt, v)
  IN  /\ i # 0
      /\ Options' = [Options EXCEPT ![m][i].opt = r.opt]
      /\ last' = [NoCall EXCEPT !.op = "assign", !.map = m, !.name = name, !.v = v,
                                !.result = r.result, !.fired = r.fired,
                                !.prev = <<Options[m][i]>>]
      /\ UNCHANGED <<insert_order, Is64Bit, hardware_concurrency, calls>>

\* os << om
Dump(m) ==
  /\ last' = [NoCall EXCEPT !.op = "dump", !.map = m, !.out = PrintOptionsMap(Options[m])]
  /\ UNCHANGED <<Options, insert_order, Is64Bit, hardware_concurrency, calls>>

(***************************************************************************)
(* Spec: the engine's run. main() initialises the global Options once, and *)
(* the host then sets options and asks for the declarations.               *)
(***************************************************************************)
Startup == calls = 0 /\ UCIInit(GlobalOptions)

SetOption == \E c \in HostCommands : Assign(GlobalOptions, c[1], c[2])

PrintOptions == Dump(GlobalOptions)

Next == Startup \/ SetOption \/ PrintOptions

Spec == Init /\ [][Next]_vars

(***************************************************************************)
(* SpecReg: the registration interface under any caller: init() and        *)
(* o[name] << opt on either map, in any order, and the printer.            *)
(***************************************************************************)
InitAny == \E m \in Maps : calls < MaxCalls /\ UCIInit(m)

RegisterAny ==
  \E m \in Maps, e \in Registrations : calls < MaxCalls /\ Register(m, e.name, e.opt)

PrintAny == \E m \in Maps : Dump(m)

NextReg == InitAny \/ RegisterAny \/ PrintAny

InitReg == Init /\ Is64Bit /\ hardware_concurrency = 4

SpecReg == InitReg /\ [][NextReg]_vars

(***************************************************************************)
(* What the claims speak of.                                               *)
(***************************************************************************)
\* the entry of map m stored under exactly this key
Entry(m, key) == Options[m][CHOOSE i \in 1..Len(Options[m]) : Options[m][i].key = key]

\* the last call was an assignment to a cell of this type
AssignedTo(type) == last.op = "assign" /\ last.prev[1].opt.type = type

\* the cell the last assignment addressed, before and after the call
LastBefore == last.prev[1].opt

LastAfter == Entry(last.map, last.prev[1].key).opt

SpinCells(m) == {i \in 1..Len(Options[m]) : Options[m][i].opt.type = TypeSpin}

CheckCells(m) == {i \in 1..Len(Options[m]) : Options[m][i].opt.type = TypeCheck}

\* a name with every character lower-cased
Fold(s) == [i \in 1..Len(s) |-> tolower(s[i])]

(* C1: on a spin cell with bounds [min,max], assigning the decimal text of an integer v
   within the bounds is applied and reading the cell as an integer then gives v;
   assigning the decimal text of a v below min or above max leaves the current value
   what it was. *)
C1_SpinAssignReadBack ==
  AssignedTo(TypeSpin) =>
    /\ \A x \in HostInts :
         last.v = to_string(x) =>
           IF LastBefore.min <= x /\ x <= LastBefore.max
             THEN /\ last.result = "applied"
                  /\ OperatorInt(LastAfter) = [err |-> "none", val |-> x]
             ELSE LastAfter.currentValue = LastBefore.currentValue
    /\ last.v = V_TooLarge => LastAfter.currentValue = LastBefore.currentValue

\* "Threads" = "512" on a host with 4 threads: applied, and read back as 512
C1_Witness ==
  /\ AssignedTo(TypeSpin)
  /\ last.v = to_string(512)
  /\ LastBefore.max = 512
  /\ LastBefore.currentValue = to_string(4)
  /\ last.result = "applied"
  /\ OperatorInt(LastAfter).val = 512

(* C2: in every state reached from init() by assignments, every spin cell has
   min <= max and min <= stoi(currentValue) <= max. *)
C2_SpinWithinBounds ==
  \A i \in SpinCells(GlobalOptions) :
    LET o == Options[GlobalOptions][i].opt
    IN  /\ o.min <= o.max
        /\ Stoi(o.currentValue).err = "none"
        /\ o.min <= Stoi(o.currentValue).val
        /\ Stoi(o.currentValue).val <= o.max

(* C3: a check cell's current value is always "true" or "false": an assignment of
   "true" or "false" is applied, an assignment of any other text leaves the value
   unchanged. *)
C3_CheckTrueOrFalse ==
  /\ \A i \in CheckCells(GlobalOptions) :
       Options[GlobalOptions][i].opt.currentValue \in {TrueText, FalseText}
  /\ AssignedTo(TypeCheck) =>
       IF last.v \in {TrueText, FalseText}
         THEN last.result = "applied" /\ LastAfter.currentValue = last.v
         ELSE last.result = "rejected" /\ LastAfter.currentValue = LastBefore.currentValue

\* "PONDER" = "true" while Ponder is "false": applied
C3_Witness ==
  /\ AssignedTo(TypeCheck)
  /\ last.v = TrueText
  /\ LastBefore.currentValue = FalseText
  /\ LastAfter.currentValue = TrueText

(* C4: an assignment to a button, whatever the text (the empty text too), is never
   rejected, runs the button's callback exactly once, and leaves the cell as it was. *)
C4_ButtonAlwaysFires ==
  AssignedTo(TypeButton) =>
    /\ last.result = "applied"
    /\ Len(last.fired) = 1
    /\ last.fired[1].cb = LastBefore.on_change
    /\ LastBefore.on_change # nullptr
    /\ LastAfter = LastBefore

\* "Clear Hash" = "": on_clear_hash runs once
C4_Witness ==
  /\ AssignedTo(TypeButton)
  /\ last.v = EmptyText
  /\ last.result = "applied"
  /\ Len(last.fired) = 1
  /\ last.fired[1].cb = "on_clear_hash"

\* the texts C5 calls rejected, for cell o: empty on a non-button, neither "true" nor
\* "false" on a check, an integer outside [min,max] on a spin
C5_Case(o, v) ==
  \/ o.type # TypeButton /\ v = EmptyText
  \/ o.type = TypeCheck /\ v \notin {TrueText, FalseText}
  \/ /\ o.type = TypeSpin
     /\ \/ \E x \in HostInts : v = to_string(x) /\ (x < o.min \/ x > o.max)
        \/ v = V_TooLarge

(* C5: a rejected assignment is silently ignored: an empty text on a check, spin or
   string cell, a text other than "true"/"false" on a check, an integer outside
   [min,max] on a spin: the call returns normally, the map is what it was before the
   call and no callback runs. *)
C5_RejectedIsSilent ==
  [][(last'.op = "assign" /\ C5_Case(last'.prev[1].opt, last'.v)) =>
       (last'.result = "rejected" /\ Options' = Options /\ last'.fired = <<>>)]_vars

(* C6: on a spin cell, an assignment of a non-empty text that does not parse as an
   integer (no leading digits, or a value too large for int) is rejected silently: the
   call returns normally, the value is unchanged, no callback runs and no exception is
   raised. *)
C6_UnparsableIsSilent ==
  (AssignedTo(TypeSpin) /\ last.v # EmptyText /\ Stoi(last.v).err # "none") =>
    /\ last.result = "rejected"
    /\ LastAfter = LastBefore
    /\ last.fired = <<>>

(* C7: each time init() populates an empty map with its N settings, the cells' indices
   are exactly 0..N-1, the k-th entry of the catalog (from 0) holding index k. *)
C7_FreshCatalogFromZero ==
  (last.op = "init" /\ last.result = "fresh") =>
    /\ Len(Options[last.map]) = CatalogSize
    /\ \A k \in 1..CatalogSize :
         Entry(last.map, Catalog(1, MaxHashMB32)[k].name).opt.idx = k - 1

\* the keys the lines of the last dump name, in the order written
DumpedKeys == [p \in 1..Len(last.out) |-> last.out[p][2]]

(* C8: for every map reachable by registrations, the dump writes exactly one line per
   setting the map holds, in ascending idx order whatever the key order. *)
C8_DumpOneLinePerSetting ==
  last.op = "dump" =>
    /\ Len(last.out) = Len(Options[last.map])
    /\ \A i \in 1..Len(Options[last.map]) :
         \E p \in 1..Len(last.out) : DumpedKeys[p] = Options[last.map][i].key
    /\ \A p, q \in 1..Len(last.out) :
         p < q => Entry(last.map, DumpedKeys[p]).opt.idx < Entry(last.map, DumpedKeys[q]).opt.idx

(* C9: every dump line reads "option name <name> type <kind>" with the kind one of
   string/check/button/spin, that of the cell; " default <value>" follows if and only
   if the cell is no button, and " min <min> max <max>" if and only if it is a spin. *)
C9_DumpLineForm ==
  last.op = "dump" =>
    \A p \in 1..Len(last.out) :
      LET line == last.out[p]
          o == Entry(last.map, line[2]).opt
      IN  /\ Len(line) >= 4
          /\ line[1] = LitOptionName
          /\ line[3] = LitType
          /\ line[4] = o.type
          /\ o.type \in {TypeString, TypeCheck, TypeButton, TypeSpin}
          /\ Len(line) = (IF o.type = TypeButton THEN 4 ELSE IF o.type = TypeSpin THEN 10 ELSE 6)
          /\ o.type # TypeButton => line[5] = LitDefault /\ line[6] = o.defaultValue
          /\ o.type = TypeSpin =>
               /\ line[7] = LitMin /\ Stoi(line[8]).val = o.min /\ line[8] = to_string(o.min)
               /\ line[9] = LitMax /\ Stoi(line[10]).val = o.max /\ line[10] = to_string(o.max)

\* a dump of the whole catalog after "hash" was set: the button's line has no default,
\* the spin's line has default, min and max, and the default is not the current value
C9_Witness ==
  /\ last.op = "dump"
  /\ Len(last.out) = CatalogSize
  /\ \E p \in 1..Len(last.out) : last.out[p][4] = TypeButton /\ Len(last.out[p]) = 4
  /\ \E p \in 1..Len(last.out) :
       /\ last.out[p][4] = TypeSpin
       /\ Len(last.out[p]) = 10
       /\ Entry(last.map, last.out[p][2]).opt.currentValue # last.out[p][6]
  /\ \E p \in 1..Len(last.out) : last.out[p][4] = TypeCheck /\ Len(last.out[p]) = 6

RegisteredNames == {e.name : e \in Registrations}

(* C10: keys are compared without regard to letter case: names equal after
   lower-casing every character are equivalent (neither orders before the other) and
   resolve to the same cell, names that differ after lower-casing are distinct keys; so
   no map ever holds two cells whose names differ only in letter case. *)
C10_CaseInsensitiveKeys ==
  /\ \A m \in Maps :
       Cardinality({Fold(Options[m][i].key) : i \in 1..Len(Options[m])}) = Len(Options[m])
  /\ \A m \in Maps : \A n \in RegisteredNames :
       LET found == MapFind(Options[m], n)
           folded == Fold(n)
       IN  \A i \in 1..Len(Options[m]) :
             LET key == Options[m][i].key
             IN  /\ folded = Fold(key)
                      <=> (~CaseInsensitiveLess(n, key) /\ ~CaseInsensitiveLess(key, n))
                 /\ folded = Fold(key) <=> found = i
  /\ last.op = "register" =>
       IF \E i \in 1..Len(last.prev) : Fold(last.prev[i].key) = Fold(last.name)
         THEN /\ last.result = "found"
              /\ Len(Options[last.map]) = Len(last.prev)
              /\ \E i \in 1..Len(last.prev) :
                   /\ Fold(last.prev[i].key) = Fold(last.name)
                   /\ Options[last.map][i].key = last.prev[i].key
                   /\ Options[last.map][i].opt.idx = insert_order - 1
         ELSE /\ last.result = "created"
              /\ Len(Options[last.map]) = Len(last.prev) + 1
              /\ Entry(last.map, last.name).opt.idx = insert_order - 1

\* o["AB"] << opt on a map that holds "ab": the slot of "ab" is filled, no cell is added
C10_Witness ==
  /\ last.op = "register"
  /\ last.name = N_AB
  /\ last.result = "found"
  /\ \E i \in 1..Len(last.prev) : last.prev[i].key = N_ab
  /\ Len(Options[last.map]) = Len(last.prev)
  /\ \A i \in 1..Len(Options[last.map]) : Options[last.map][i].key # N_AB

(* C11: an accepted assignment to a check, spin or string cell that has a callback runs
   that callback exactly once, after currentValue has been set to the assigned text (the
   callback is handed the new value, never the old one) and before the call returns; on
   a cell without a callback an accepted assignment runs nothing. *)
C11_CallbackSeesNewValue ==
  (last.op = "assign" /\ LastBefore.type # TypeButton /\ last.result = "applied") =>
    /\ LastAfter.currentValue = last.v
    /\ IF LastBefore.on_change # nullptr
         THEN /\ Len(last.fired) = 1
              /\ last.fired[1].cb = LastBefore.on_change
              /\ last.fired[1].seen = last.v
         ELSE last.fired = <<>>

\* "hash" = "512" while Hash is "16": on_hash_size runs once and is handed "512"
C11_Witness ==
  /\ AssignedTo(TypeSpin)
  /\ last.result = "applied"
  /\ LastBefore.currentValue = to_string(16)
  /\ last.v = to_string(512)
  /\ Len(last.fired) = 1
  /\ last.fired[1].cb = "on_hash_size"
  /\ last.fired[1].seen = to_string(512)

(* C12: the callback of a check, spin or string cell runs only when the value actually
   changes: an assignment whose text equals the cell's current value runs no callback. *)
C12_FiresOnlyOnChange ==
  (last.op = "assign" /\ LastBefore.type # TypeButton /\ last.v = LastBefore.currentValue) =>
    last.fired = <<>>

\* the cells of every map, as <<map, position>>
AllCells == {<<m, i>> \in Maps \X (1..(CatalogSize + MaxCalls)) : i <= Len(Options[m])}

IdxOf(c) == Options[c[1]][c[2]].opt.idx

(* C13: under any sequence of registrations in one process (a name registered again,
   registrations into more than one map), each registration stamps an idx strictly
   greater than every idx stamped before it, so no two cells of a map ever hold the
   same idx. *)
C13_StampsIncrease ==
  /\ \A c, d \in AllCells : (c[1] = d[1] /\ c[2] # d[2]) => IdxOf(c) # IdxOf(d)
  /\ \A c \in AllCells : IdxOf(c) < insert_order
  /\ last.op = "register" =>
       LET t == <<last.map, MapFind(Options[last.map], last.name)>>
       IN  /\ IdxOf(t) = insert_order - 1
           /\ \A c \in AllCells \ {t} : IdxOf(c) < IdxOf(t)
  /\ last.op = "init" =>
       LET first == insert_order - CatalogSize
           stamped == {c \in AllCells : c[1] = last.map /\ IdxOf(c) >= first}
       IN  /\ Cardinality(stamped) = CatalogSize
           /\ \A k \in 1..CatalogSize :
                Entry(last.map, Catalog(1, MaxHashMB32)[k].name).opt.idx = first + k - 1
           /\ \A c \in AllCells \ stamped : IdxOf(c) < first

\* a name registered a second time, into the second of two maps that both hold cells
C13_Witness ==
  /\ last.op = "register"
  /\ last.result = "found"
  /\ \A m \in Maps : Len(Options[m]) > 0
  /\ insert_order = 3

\* the Option the last registration was given
LastRegistered == (CHOOSE e \in Registrations : e.name = last.name).opt

(* C14: registering a fresh Option under a name the map already holds (compared without
   case) is last-write-wins: the slot's type, default, current value, bounds and
   callback all become the new Option's, its idx is stamped with the next counter value,
   and the number of cells of the map is unchanged. *)
C14_ReRegisterOverwrites ==
  (last.op = "register" /\ last.result = "found") =>
    LET i == MapFind(last.prev, last.name)
        cell == Options[last.map][i]
    IN  /\ Len(Options[last.map]) = Len(last.prev)
        /\ cell.key = last.prev[i].key
        /\ cell.opt.type = LastRegistered.type
        /\ cell.opt.defaultValue = LastRegistered.defaultValue
        /\ cell.opt.currentValue = LastRegistered.currentValue
        /\ cell.opt.min = LastRegistered.min
        /\ cell.opt.max = LastRegistered.max
        /\ cell.opt.on_change = LastRegistered.on_change
        /\ cell.opt.idx = insert_order - 1
        /\ cell.opt.idx > last.prev[i].opt.idx
        /\ \A j \in 1..Len(last.prev) : j # i => Options[last.map][j] = last.prev[j]

\* the check "AB" registered over the spin "ab": the slot keeps the key "ab" and
\* becomes a check without callback
C14_Witness ==
  /\ last.op = "register"
  /\ last.result = "found"
  /\ last.name = N_AB
  /\ LET i == MapFind(last.prev, last.name)
     IN  /\ last.prev[i].key = N_ab
         /\ last.prev[i].opt.type = TypeSpin
         /\ last.prev[i].opt.on_change = "on_hash_size"
         /\ Options[last.map][i].key = N_ab
         /\ Options[last.map][i].opt.type = TypeCheck
         /\ Options[last.map][i].opt.on_change = nullptr

(* C15: the dump reports default values, not current values: after any sequence of
   assignments (accepted or rejected) that follows init(), the dump is the text a dump
   right after init() gives. *)
C15_DumpShowsDefaults ==
  (last.op = "dump" /\ Options[last.map] # <<>>) =>
    last.out = PrintOptionsMap(InitMap(<<>>, hardware_concurrency, Is64Bit, 0))

\* a dump while a spin and a string cell hold values that are not their defaults
C15_Witness ==
  /\ last.op = "dump"
  /\ Len(last.out) = CatalogSize
  /\ Entry(last.map, N_SyzygyPath).opt.currentValue = V_abc
  /\ Entry(last.map, N_SyzygyPath).opt.defaultValue # V_abc
  /\ \E i \in SpinCells(last.map) :
       Options[last.map][i].opt.currentValue # Options[last.map][i].opt.defaultValue

(* C16: an assignment changes at most the currentValue of the one cell it addresses:
   that cell's type, defaultValue, min, max, idx and on_change, every field of every
   other cell and the set of names of the map are unchanged, whether the assignment is
   accepted or rejected. *)
C16_AssignChangesOneValue ==
  [][last'.op = "assign" =>
       /\ insert_order' = insert_order
       /\ \A m \in Maps \ {last'.map} : Options'[m] = Options[m]
       /\ Len(Options'[last'.map]) = Len(Options[last'.map])
       /\ \A i \in 1..Len(Options[last'.map]) :
            LET a == Options[last'.map][i]
                b == Options'[last'.map][i]
            IN  /\ b.key = a.key
                /\ b.opt.type = a.opt.type
                /\ b.opt.defaultValue = a.opt.defaultValue
                /\ b.opt.min = a.opt.min
                /\ b.opt.max = a.opt.max
                /\ b.opt.idx = a.opt.idx
                /\ b.opt.on_change = a.opt.on_change
                /\ a.key # last'.prev[1].key => b = a]_vars

\* "SyzygyPath" = "abc" applied: the current value changes, the default stays "<empty>"
C16_Witness ==
  /\ AssignedTo(TypeString)
  /\ last.result = "applied"
  /\ last.v = V_abc
  /\ LastBefore.currentValue # V_abc
  /\ LastAfter.currentValue = V_abc
  /\ LastAfter.defaultValue = LastBefore.defaultValue
  /\ LastAfter.defaultValue # V_abc

(* C17: the current value of a spin cell is always the canonical decimal text of an
   integer: after any sequence of assignments, currentValue is the decimal text of
   stoi(currentValue), with no leading whitespace, plus sign, leading zeros or trailing
   characters that are no digits. *)
C17_SpinTextCanonical ==
  \A i \in SpinCells(GlobalOptions) :
    LET o == Options[GlobalOptions][i].opt
    IN  /\ Stoi(o.currentValue).err = "none"
        /\ o.currentValue = to_string(Stoi(o.currentValue).val)

(* C18: no type assertion of the conversion operators is reachable through the catalog:
   for every catalog entry bound to a callback, the conversion that callback applies to
   the cell (operator int or operator std::string) is valid for the cell's type, so under
   any sequence of accepted assignments the assertion of operator int (type is check or
   spin) and that of operator std::string (type is string) always hold. *)
C18_NoTypeMismatch ==
  /\ \A i \in 1..Len(Options[GlobalOptions]) :
       LET o == Options[GlobalOptions][i].opt
       IN  o.on_change # nullptr =>
             /\ CallbackRead(o) # "assert"
             /\ CallbackReads(o.on_change) = "int" => o.type \in {TypeCheck, TypeSpin}
             /\ CallbackReads(o.on_change) = "string" => o.type = TypeString
  /\ (last.op = "assign" /\ last.result = "applied") =>
       \A k \in 1..Len(last.fired) : last.fired[k].read # "assert"

\* "SyzygyPath" = "abc" applied: on_tb_path converts the string cell to a string, and
\* the catalog also holds a check and a spin whose callbacks convert them to int
C18_Witness ==
  /\ AssignedTo(TypeString)
  /\ last.result = "applied"
  /\ Len(last.fired) = 1
  /\ last.fired[1].cb = "on_tb_path"
  /\ CallbackReads(last.fired[1].cb) = "string"
  /\ last.fired[1].read = "none"
  /\ \E i \in CheckCells(GlobalOptions) :
       CallbackReads(Options[GlobalOptions][i].opt.on_change) = "int"
  /\ \E i \in SpinCells(GlobalOptions) :
       CallbackReads(Options[GlobalOptions][i].opt.on_change) = "int"
====
